---------------------------- MODULE Spec2Model ----------------------------
(***************************************************************************)
(* Model of src/agent.py: the workspace resolver, the memory scaffold and  *)
(* the restart controller of run_agent, driven from main or called         *)
(* directly.  Text is a sequence of one-character strings, a file is a     *)
(* record [exists, text], a workspace directory is a record of the files   *)
(* the controller looks at.  The worker is the external process started by *)
(* subprocess.run; it may write the files of its workspace while it runs.  *)
(***************************************************************************)
EXTENDS Integers, Sequences, FiniteSets, TLC

\* ------------------------------------------------------------------ bounds
MaxInvocations == 3
MaxRestartsArg == 2
MaxClock == 1
MaxNameLen == 3

\* ------------------------------------------------------- program constants
DefaultMaxRestarts == 5
SlugMax == 50
ListMax == 50
NameMax == 255

\* -------------------------------------------------------------------- text
Whitespace == {" ", "\n", "\t", "\r"}

LowerLetters ==
  <<"a","b","c","d","e","f","g","h","i","j","k","l","m",
    "n","o","p","q","r","s","t","u","v","w","x","y","z">>

UpperLetters ==
  <<"A","B","C","D","E","F","G","H","I","J","K","L","M",
    "N","O","P","Q","R","S","T","U","V","W","X","Y","Z">>

Digits == <<"0","1","2","3","4","5","6","7","8","9">>

Range(s) == {s[i] : i \in DOMAIN s}

Min(a, b) == IF a < b THEN a ELSE b

Take(s, n) == SubSeq(s, 1, Min(n, Len(s)))

\* str.strip(chars): drop the leading and the trailing characters in chars
RECURSIVE LStrip(_, _)
LStrip(s, chars) ==
  IF s # <<>> /\ Head(s) \in chars THEN LStrip(Tail(s), chars) ELSE s

RECURSIVE RStrip(_, _)
RStrip(s, chars) ==
  IF s # <<>> /\ s[Len(s)] \in chars
  THEN RStrip(SubSeq(s, 1, Len(s) - 1), chars)
  ELSE s

StripChars(s, chars) == RStrip(LStrip(s, chars), chars)

Strip(s) == StripChars(s, Whitespace)

\* str.lower() on one character
LowerChar(c) ==
  IF c \in Range(UpperLetters)
  THEN LowerLetters[CHOOSE i \in DOMAIN UpperLetters : UpperLetters[i] = c]
  ELSE c

Lower(s) == [i \in DOMAIN s |-> LowerChar(s[i])]

\* f.readline(): the text up to and including the first newline
RECURSIVE ReadLine(_)
ReadLine(s) ==
  IF s = <<>> THEN <<>>
  ELSE IF Head(s) = "\n" THEN <<"\n">>
  ELSE <<Head(s)>> \o ReadLine(Tail(s))

\* ------------------------------------------------------------------- files
NoFile == [exists |-> FALSE, text |-> <<>>]

File(t) == [exists |-> TRUE, text |-> t]

PartitionNames == {"core", "learned", "current", "handoffs", "archive"}

\* a directory nobody has written to yet
EmptyDir ==
  [partitions |-> {}, objective |-> NoFile, status |-> NoFile,
   complete |-> NoFile, counted |-> FALSE]

\* ------------------------------------------------------------------- paths
\* get_default_workspace_base(): one fixed directory for the whole run
BasePath == <<"/", "b">>

\* Path.cwd()
CwdPath == <<"/", "c">>

\* pathlib's a / b for a relative b (joining "" gives a itself)
Join(a, b) == IF b = <<>> THEN a ELSE a \o <<"/">> \o b

IsAbsolute(p) == p # <<>> /\ Head(p) = "/"

RECURSIVE Parent(_)
Parent(p) ==
  IF p = <<>> THEN <<>>
  ELSE IF p[Len(p)] = "/" THEN SubSeq(p, 1, Len(p) - 1)
  ELSE Parent(SubSeq(p, 1, Len(p) - 1))

\* workspace_base.iterdir(): the entries right under the base directory
BaseChildren(d) == {p \in DOMAIN d : Parent(p) = BasePath}

\* the orders in which iterdir() may yield the entries
IterOrders(S) ==
  {f \in [1..Cardinality(S) -> S] : \A i, j \in 1..Cardinality(S) : f[i] = f[j] => i = j}

\* ----------------------------------------------------------- pure functions
SafeChars == Range(LowerLetters) \cup Range(UpperLetters) \cup Range(Digits) \cup {"-", "_"}

\* re.sub(r'[^a-zA-Z0-9-_]', '_', ...)
ReplaceUnsafe(s) == [i \in DOMAIN s |-> IF s[i] \in SafeChars THEN s[i] ELSE "_"]

\* faulty variant: the unsafe characters are kept
SanitizeNameKeepsUnsafe(name) == StripChars(Lower(Take(name, SlugMax)), {"_"})

\* faulty variant: the cut to SlugMax characters comes last
SanitizeNameCutLast(name) ==
  Take(StripChars(Lower(ReplaceUnsafe(name)), {"_"}), SlugMax)

SanitizeName(name) == StripChars(Lower(ReplaceUnsafe(Take(name, SlugMax))), {"_"})

TwoDigits(n) == <<Digits[(n \div 10) + 1], Digits[(n % 10) + 1]>>

\* datetime.now().strftime("%Y%m%d_%H%M%S"), the clock counting the seconds
\* of 2024-01-01 from midnight
Strftime(t) ==
  <<"2","0","2","4","0","1","0","1","_">>
    \o TwoDigits((t \div 3600) % 24) \o TwoDigits((t \div 60) % 60) \o TwoDigits(t % 60)

ResumeToken == <<"N","E","E","D","S","_","R","E","S","U","M","E">>

StatusFile(d, ws) == d[ws].status

\* faulty variants: the comparison without strip(); the test of existence alone
CheckNeedsResumeExact(d, ws) ==
  /\ StatusFile(d, ws).exists
  /\ StatusFile(d, ws).text = ResumeToken

CheckNeedsResumeAnyContent(d, ws) == StatusFile(d, ws).exists

\* the status file exists and its stripped content is the token
CheckNeedsResume(d, ws) ==
  /\ StatusFile(d, ws).exists
  /\ Strip(StatusFile(d, ws).text) = ResumeToken

\* faulty variant: the status file is left in place
IgnoreStatus(d, ws) == d

\* status_file.unlink() when it exists

ClearStatus(d, ws) ==
  IF d[ws].status.exists
  THEN [d EXCEPT ![ws].status = NoFile, ![ws].counted = FALSE]
  ELSE d

\* faulty variant: the workspace is set up anew, whatever it held
EnsureMemoryStructureAnew(d, ws) ==
  (ws :> [EmptyDir EXCEPT !.partitions = PartitionNames]) @@ d

\* mkdir(parents=True, exist_ok=True) of the five partitions
EnsureMemoryStructure(d, ws) ==
  IF ws \in DOMAIN d
  THEN [d EXCEPT ![ws].partitions = @ \cup PartitionNames]
  ELSE (ws :> [EmptyDir EXCEPT !.partitions = PartitionNames]) @@ d

\* workspace_dir.mkdir(parents=True, exist_ok=True)
Mkdir(d, ws) == IF ws \in DOMAIN d THEN d ELSE (ws :> EmptyDir) @@ d

\* the files load_objective may find: relative to the current directory, then
\* relative to the directory of agent.py
ObjHi == <<"H", "i", "!">>

ObjDots == <<".", ".">>

\* an objective of one word too long for a file name
LongPath == [i \in 1..(NameMax + 1) |-> "x"]

CwdFiles == (<<"f">> :> <<" ", "H", "i", "!", "\n">>)

RootFiles == (<<"f">> :> ObjDots) @@ (<<"g">> :> <<".", ".", "\n">>)

\* a component of the path is longer than NameMax characters, so that stat()
\* fails with ENAMETOOLONG: os.path.isfile answers False, pathlib's
\* is_file lets the OSError through (it passes over ENOENT, ENOTDIR, EBADF
\* and ELOOP alone)
NameTooLong(path) ==
  \E i \in 1..(Len(path) - NameMax) : \A k \in i..(i + NameMax) : path[k] # "/"

Loaded(text) == [raised |-> FALSE, text |-> text]

Raised == [raised |-> TRUE, text |-> <<>>]

\* load_objective with the files of the two directories as given
LoadObjectiveIn(cwdFiles, rootFiles, path) ==
  IF ~NameTooLong(path) /\ path \in DOMAIN cwdFiles THEN Loaded(Strip(cwdFiles[path]))
  ELSE IF NameTooLong(path) THEN Raised
  ELSE IF path \in DOMAIN rootFiles THEN Loaded(Strip(rootFiles[path]))
  ELSE Loaded(path)

LoadObjective(path) == LoadObjectiveIn(CwdFiles, RootFiles, path)

\* faulty variant: the objective is given again on a resume
CreateMasterPromptRestated(objective, ws, res) ==
  [mode |-> IF res THEN "resume" ELSE "fresh", objective |-> objective,
   workspace |-> ws]

\* the two variants of the master prompt: what the text depends on
CreateMasterPrompt(objective, ws, res) ==
  IF res
  THEN [mode |-> "resume", objective |-> <<>>, workspace |-> ws]
  ELSE [mode |-> "fresh", objective |-> objective, workspace |-> ws]

ResumingObjective ==
  <<"R","e","s","u","m","i","n","g"," ","f","r","o","m"," ",
    "s","a","v","e","d"," ","s","t","a","t","e">>

Msg(tag, code, text) == [tag |-> tag, code |-> code, text |-> text]

\* ------------------------------------------------------ workspace resolver
\* faulty variant: any entry of the base directory qualifies
AnyEntry(d, p) == TRUE

\* (dir / ".memory" / "core" / "objective.md").exists()
HasObjective(d, p) == d[p].objective.exists

\* the for loop over iterdir(): the first entry with the marker, <<>> if none
RECURSIVE FirstWithObjective(_, _)
FirstWithObjective(d, order) ==
  IF order = <<>> THEN <<>>
  ELSE IF HasObjective(d, Head(order)) THEN Head(order)
  ELSE FirstWithObjective(d, Tail(order))

Resolved(base, d, ws) == [ok |-> TRUE, base |-> base, dirs |-> d, ws |-> ws, msg |-> "none"]

Failed(base, d, msg) == [ok |-> FALSE, base |-> base, dirs |-> d, ws |-> <<>>, msg |-> msg]

ResolveExplicit(base, d, workspace) ==
  Resolved(base, d, IF IsAbsolute(workspace) THEN workspace ELSE Join(CwdPath, workspace))

\* faulty variant: the base directory is created before it is scanned, as in the
\* fresh branch
ResolveResumeMkdir(base, d, order) ==
  IF FirstWithObjective(d, order) # <<>>
  THEN Resolved(TRUE, d, FirstWithObjective(d, order))
  ELSE Failed(TRUE, d, "no_saved_state")

\* the resume branch: scan the base directory, fail when nothing qualifies
ResolveResume(base, d, order) ==
  IF base
  THEN IF FirstWithObjective(d, order) # <<>>
       THEN Resolved(base, d, FirstWithObjective(d, order))
       ELSE Failed(base, d, "no_saved_state")
  ELSE Failed(base, d, "no_workspace_directory")

ResolveFresh(base, d, objective, now) ==
  LET name == SanitizeName(objective)
      first == Join(BasePath, name)
      exists == first = BasePath \/ first \in DOMAIN d
      ws == IF exists THEN Join(BasePath, name \o <<"_">> \o Strftime(now)) ELSE first
  IN  Resolved(TRUE, Mkdir(d, ws), ws)

ResolveWorkspace(base, d, workspace, res, objective, order, now) ==
  IF workspace # <<>> THEN ResolveExplicit(base, d, workspace)
  ELSE IF res THEN ResolveResume(base, d, order)
  ELSE ResolveFresh(base, d, objective, now)

\* -------------------------------------------------------------------- state
VARIABLES
  baseExists,      \* the base directory exists
  dirs,            \* the workspace directories on disk, by absolute path
  clock,           \* the wall clock, in seconds
  pc,              \* "idle", "running" (blocked in subprocess.run), "returned"
  args,            \* the arguments of the invocation under way
  workspace_dir,   \* run_agent's locals
  resume,
  restart_count,
  max_restarts,
  prompt,
  ret,             \* <<>> until the invocation returns, then <<value>>
  printed,         \* what the invocation has printed
  worker,          \* the child process: "none" or "running"
  wrote,           \* the running worker has written its files
  launches,        \* history: calls of subprocess.run in this invocation
  lastExit,        \* history: how the last worker run of this invocation ended
  statusReads,     \* history: calls of check_needs_resume in this invocation
  invocations,     \* history: invocations started
  pure             \* a pure function under evaluation: its argument and result

vars ==
  <<baseExists, dirs, clock, pc, args, workspace_dir, resume, restart_count,
    max_restarts, prompt, ret, printed, worker, wrote, launches, lastExit,
    statusReads, invocations, pure>>

NoArgs ==
  [list |-> FALSE, objective |-> <<>>, workspace |-> <<>>, resume |-> FALSE,
   timed |-> FALSE, maxArg |-> <<>>]

NoPrompt == [mode |-> "none", objective |-> <<>>, workspace |-> <<>>]

NoExit ==
  [kind |-> "none", rc |-> 0, run |-> 0, status |-> NoFile, restarts |-> 0,
   reads |-> 0]

Ended(kind, rc) ==
  [kind |-> kind, rc |-> rc, run |-> launches,
   status |-> dirs[workspace_dir].status, restarts |-> restart_count,
   reads |-> statusReads]

\* no pure function is under evaluation
NoPure == [fn |-> "none", arg |-> <<>>, out |-> <<>>, prev |-> <<>>, calls |-> 0]

\* the state before the first invocation: nothing on disk
InitMachine ==
  /\ baseExists = FALSE
  /\ dirs = << >>
  /\ clock = 0
  /\ pc = "idle"
  /\ args = NoArgs
  /\ workspace_dir = <<>>
  /\ resume = FALSE
  /\ restart_count = 0
  /\ max_restarts = DefaultMaxRestarts
  /\ prompt = NoPrompt
  /\ ret = <<>>
  /\ printed = {}
  /\ worker = "none"
  /\ wrote = FALSE
  /\ launches = 0
  /\ lastExit = NoExit
  /\ statusReads = 0
  /\ invocations = 0

Init == InitMachine /\ pure = NoPure

\* ------------------------------------------------------ restart controller
\* the banner of the first launch; the objective is cut to 100 characters
LaunchBanner(objective, ws, maxr) ==
  {Msg("launching", maxr, ws),
   Msg("objective", 0,
       IF Len(objective) > 100 THEN Take(objective, 100) \o <<".", ".", ".">>
       ELSE objective)}

\* the history counters count up to TallyMax, which no invocation reaches
TallyMax == DefaultMaxRestarts + MaxRestartsArg

Tally(n) == IF n < TallyMax THEN n + 1 ELSE n

\* faulty variant: the checkpoint is not counted
IncrementLost(count) == count

\* restart_count += 1
Increment(count) == count + 1

\* faulty variant: every pass of the loop counts as a restart
AlwaysRestart(count) == TRUE

\* if restart_count > 0
IsRestart(count) == count > 0

\* faulty variant: the caller's flag is used for every launch
ResumeModeKept(count, res) == res

\* resume = True on a restart, the caller's flag otherwise
ResumeMode(count, res) == IF IsRestart(count) THEN TRUE ELSE res

\* one pass of the loop body up to subprocess.run: clear the status file and
\* force resume mode on a restart, compile the prompt, start the worker
Launch(d, ws, objective, res, count, maxr, out, n) ==
  LET again == IsRestart(count)
      d1 == IF again THEN ClearStatus(d, ws) ELSE d
      r1 == ResumeMode(count, res)
  IN  /\ dirs' = d1
      /\ workspace_dir' = ws
      /\ resume' = r1
      /\ restart_count' = count
      /\ max_restarts' = maxr
      /\ prompt' = CreateMasterPrompt(objective, ws, r1)
      /\ printed' = out \cup (IF again THEN {Msg("restart", count, <<>>)}
                              ELSE LaunchBanner(objective, ws, maxr))
      /\ pc' = "running"
      /\ worker' = "running"
      /\ wrote' = FALSE
      /\ launches' = Tally(n)
      /\ ret' = <<>>

\* run_agent returns value with the locals as they are
Return(d, ws, res, count, maxr, out, n, pr, value) ==
  /\ dirs' = d
  /\ workspace_dir' = ws
  /\ resume' = res
  /\ restart_count' = count
  /\ max_restarts' = maxr
  /\ prompt' = pr
  /\ printed' = out
  /\ pc' = "returned"
  /\ worker' = "none"
  /\ wrote' = FALSE
  /\ launches' = n
  /\ ret' = <<value>>

\* run_agent's return values: resolution failure, any other exception
ResolutionError == 1

ErrorReturn == 1

\* faulty variant: the end of the loop reports an error
LoopReturnError == ErrorReturn

\* return 0 after the loop, however it ended
LoopReturn == 0

\* the code after the loop: the budget message
AfterLoop(count, maxr, out) ==
  IF count >= maxr THEN out \cup {Msg("max_restarts", maxr, <<>>)} ELSE out

\* faulty variant: the loop runs once more
LoopConditionInclusive(count, maxr) == count <= maxr

\* while restart_count < max_restarts
LoopCondition(count, maxr) == count < maxr

Loop(d, ws, objective, res, count, maxr, out, n, pr) ==
  IF LoopCondition(count, maxr)
  THEN Launch(d, ws, objective, res, count, maxr, out, n)
  ELSE Return(d, ws, res, count, maxr, AfterLoop(count, maxr, out), n,
              pr, LoopReturn)

\* faulty variant: every return code counts as success
AnyReturnCode(rc) == TRUE

\* result.returncode == 0
ReturnCodeOk(rc) == rc = 0

\* faulty variant: the report is printed whether the file exists or not
CompletionReportAlways(d, ws) == {Msg("report", 0, d[ws].complete.text)}

\* complete.md, printed when it exists
CompletionReport(d, ws) ==
  IF d[ws].complete.exists THEN {Msg("report", 0, d[ws].complete.text)} ELSE {}

\* run_agent from its first line to the first subprocess.run or to its return
RunAgent(objective, workspace, res, maxr, order) ==
  LET r == ResolveWorkspace(baseExists, dirs, workspace, res, objective, order, clock)
  IN  /\ baseExists' = r.base
      /\ IF r.ok
         THEN Loop(EnsureMemoryStructure(r.dirs, r.ws), r.ws, objective, res, 0,
                   maxr, {}, 0, NoPrompt)
         ELSE Return(r.dirs, <<>>, res, 0, maxr, {Msg(r.msg, 0, <<>>)}, 0,
                     NoPrompt, ResolutionError)

\* ------------------------------------------------------------------ inputs
ExitCodes == {0, 1, 2}

StatusTexts == {ResumeToken, ResumeToken \o <<"\n">>, <<"D", "O", "N", "E">>}

ObjectiveTexts == {<<>>, <<"H", "i", "!", "\n">>}

CompleteTexts == {<<"o", "k">>}

Keep == [keep |-> TRUE, file |-> NoFile]

Put(f) == [keep |-> FALSE, file |-> f]

Writes(texts) == {Keep, Put(NoFile)} \cup {Put(File(t)) : t \in texts}

Apply(old, e) == IF e.keep THEN old ELSE e.file

\* the partition directories a worker may remove (the empty archive, by
\* cleaning its working tree)
Removals == {{}, {"archive"}}

\* ----------------------------------------------------------------- actions
Startable == pc = "idle" /\ invocations < MaxInvocations

Started(a) ==
  /\ args' = a
  /\ lastExit' = NoExit
  /\ statusReads' = 0
  /\ invocations' = invocations + 1
  /\ clock' = clock
  /\ pure' = pure

\* run_agent called directly, with any max_restarts
Call(objective, workspace, res, timed, maxr, order) ==
  /\ Startable
  /\ Started([list |-> FALSE, objective |-> objective, workspace |-> workspace,
              resume |-> res, timed |-> timed, maxArg |-> <<>>])
  /\ RunAgent(objective, workspace, res, maxr, order)

Basename(p) == SubSeq(p, Len(Parent(p)) + 2, Len(p))

\* main --list
Listing ==
  IF baseExists
  THEN {Msg("existing_workspaces", 0, <<>>)} \cup
       {IF dirs[p].objective.exists
        THEN Msg("workspace", 0,
                 Basename(p) \o <<":", " ">>
                   \o Take(Strip(ReadLine(dirs[p].objective.text)), ListMax))
        ELSE Msg("workspace_no_objective", 0, Basename(p)) : p \in BaseChildren(dirs)}
  ELSE {Msg("no_workspaces", 0, <<>>)}

\* main's return value when neither an objective nor --resume is given
UsageError == 1

\* parse_args() on an option the parser does not know: usage, error, exit 2
ArgparseError == 2

\* the exit status of the interpreter when main raises
UncaughtError == 1

\* main: parse the arguments, list, or hand over to run_agent with the default
\* max_restarts
Main(list, res, objArg, workspace, timed, order, maxArg) ==
  /\ Startable
  /\ IF maxArg # <<>>
     THEN /\ Started([NoArgs EXCEPT !.maxArg = maxArg])
          /\ baseExists' = baseExists
          /\ Return(dirs, <<>>, FALSE, 0, DefaultMaxRestarts,
                    {Msg("unrecognized_arguments", 0, <<>>)}, 0, NoPrompt,
                    ArgparseError)
     ELSE IF list
     THEN /\ Started([list |-> TRUE, objective |-> <<>>, workspace |-> workspace,
                      resume |-> res, timed |-> timed,
                      maxArg |-> <<>>])
          /\ baseExists' = baseExists
          /\ Return(dirs, <<>>, res, 0, DefaultMaxRestarts, Listing, 0, NoPrompt, 0)
     ELSE IF res
     THEN /\ Started([list |-> FALSE, objective |-> ResumingObjective,
                      workspace |-> workspace, resume |-> TRUE, timed |-> timed,
                      maxArg |-> <<>>])
          /\ RunAgent(ResumingObjective, workspace, TRUE, DefaultMaxRestarts, order)
     ELSE IF objArg # <<>> /\ LoadObjective(objArg).raised
     THEN /\ Started([list |-> FALSE, objective |-> <<>>, workspace |-> workspace,
                      resume |-> FALSE, timed |-> timed,
                      maxArg |-> <<>>])
          /\ baseExists' = baseExists
          /\ Return(dirs, <<>>, res, 0, DefaultMaxRestarts,
                    {Msg("traceback", 0, <<>>)}, 0, NoPrompt, UncaughtError)
     ELSE IF objArg # <<>>
     THEN /\ Started([list |-> FALSE, objective |-> LoadObjective(objArg).text,
                      workspace |-> workspace, resume |-> FALSE, timed |-> timed,
                      maxArg |-> <<>>])
          /\ RunAgent(LoadObjective(objArg).text, workspace, FALSE,
                      DefaultMaxRestarts, order)
     ELSE /\ Started([list |-> FALSE, objective |-> <<>>, workspace |-> workspace,
                      resume |-> FALSE, timed |-> timed,
                      maxArg |-> <<>>])
          /\ baseExists' = baseExists
          /\ Return(dirs, <<>>, res, 0, DefaultMaxRestarts, {Msg("usage", 0, <<>>)},
                    0, NoPrompt, UsageError)

\* the worker writes files of its workspace while it runs
WorkerWrites(st, ob, co, rm) ==
  /\ pc = "running" /\ worker = "running" /\ ~wrote
  /\ wrote' = TRUE
  /\ dirs' = [dirs EXCEPT ![workspace_dir] =
                [@ EXCEPT !.status = Apply(@, st), !.objective = Apply(@, ob),
                          !.complete = Apply(@, co),
                          !.partitions = @ \ rm,
                          !.counted = IF st.keep THEN @ ELSE FALSE]]
  /\ UNCHANGED <<baseExists, clock, pc, args, workspace_dir, resume, restart_count,
                 max_restarts, prompt, ret, printed, worker, launches, lastExit,
                 statusReads, invocations, pure>>

\* subprocess.run returns: the worker has exited with return code rc
WorkerExits(rc) ==
  /\ pc = "running" /\ worker = "running"
  /\ lastExit' = Ended("exit", rc)
  /\ UNCHANGED <<baseExists, clock, args, invocations, pure>>
  /\ IF ReturnCodeOk(rc)
     THEN /\ statusReads' = Tally(statusReads)
          /\ IF CheckNeedsResume(dirs, workspace_dir)
             THEN Loop([dirs EXCEPT ![workspace_dir].counted = TRUE], workspace_dir,
                       args.objective, resume, Increment(restart_count), max_restarts,
                       printed \cup {Msg("checkpoint", 0, <<>>)}, launches, prompt)
             ELSE Return(dirs, workspace_dir, resume, restart_count, max_restarts,
                         AfterLoop(restart_count, max_restarts,
                                   printed \cup {Msg("completed", 0, <<>>)}
                                     \cup CompletionReport(dirs, workspace_dir)),
                         launches, prompt, LoopReturn)
     ELSE /\ statusReads' = statusReads
          /\ Return(dirs, workspace_dir, resume, restart_count, max_restarts,
                    AfterLoop(restart_count, max_restarts,
                              printed \cup {Msg("exited", rc, <<>>)}),
                    launches, prompt, LoopReturn)

\* faulty variant: the stop lands in the handler of any other exception
StoppedAsError(kind) ==
  /\ lastExit' = Ended(kind, 0)
  /\ UNCHANGED <<baseExists, clock, args, statusReads, invocations, pure>>
  /\ Return(dirs, workspace_dir, resume, restart_count, max_restarts,
            printed \cup {Msg("error", 0, <<>>)}, launches, prompt, ErrorReturn)

\* a recognised stop of the run (timeout, interrupt): message, break, return 0
Stopped(kind) ==
  /\ lastExit' = Ended(kind, 0)
  /\ UNCHANGED <<baseExists, clock, args, statusReads, invocations, pure>>
  /\ Return(dirs, workspace_dir, resume, restart_count, max_restarts,
            AfterLoop(restart_count, max_restarts,
                      printed \cup {Msg(kind, 0, <<>>), Msg("state_saved", 0, workspace_dir)}),
            launches, prompt, LoopReturn)

\* subprocess.run kills the worker and raises TimeoutExpired
TimeoutExpired ==
  /\ pc = "running" /\ worker = "running" /\ args.timed
  /\ Stopped("timeout")

\* KeyboardInterrupt while the worker runs: subprocess.run kills it and re-raises
KeyboardInterrupt ==
  /\ pc = "running" /\ worker = "running"
  /\ Stopped("interrupt")

\* faulty variant: the handler breaks out of the loop instead of returning 1
RunRaisesBreaks ==
  /\ pc = "running" /\ worker = "running" /\ ~wrote
  /\ lastExit' = Ended("error", 0)
  /\ UNCHANGED <<baseExists, clock, args, statusReads, invocations, pure>>
  /\ Return(dirs, workspace_dir, resume, restart_count, max_restarts,
            AfterLoop(restart_count, max_restarts, printed \cup {Msg("error", 0, <<>>)}),
            launches, prompt, LoopReturn)

\* any other exception out of subprocess.run (the command cannot be started)
RunRaises ==
  /\ pc = "running" /\ worker = "running" /\ ~wrote
  /\ lastExit' = Ended("error", 0)
  /\ UNCHANGED <<baseExists, clock, args, statusReads, invocations, pure>>
  /\ Return(dirs, workspace_dir, resume, restart_count, max_restarts,
            printed \cup {Msg("error", 0, <<>>)}, launches, prompt, ErrorReturn)

\* the supervisor process ends (sys.exit): its locals are gone, the files stay
Exit ==
  /\ pc = "returned"
  /\ pc' = "idle"
  /\ args' = NoArgs
  /\ workspace_dir' = <<>>
  /\ resume' = FALSE
  /\ restart_count' = 0
  /\ max_restarts' = DefaultMaxRestarts
  /\ prompt' = NoPrompt
  /\ ret' = <<>>
  /\ printed' = {}
  /\ launches' = 0
  /\ lastExit' = NoExit
  /\ statusReads' = 0
  /\ UNCHANGED <<baseExists, dirs, clock, worker, wrote, invocations, pure>>

\* time passes
Tick ==
  /\ clock < MaxClock
  /\ clock' = clock + 1
  /\ UNCHANGED <<baseExists, dirs, pc, args, workspace_dir, resume, restart_count,
                 max_restarts, prompt, ret, printed, worker, wrote, launches,
                 lastExit, statusReads, invocations, pure>>

\* the steps of the supervisor and of its worker, the inputs drawn from the
\* given sets
Step(objectives, objArgs, workspaces, statusWrites, objectiveWrites, completeWrites, removals) ==
  \/ \E objective \in objectives, workspace \in workspaces,
        res \in BOOLEAN, timed \in BOOLEAN, maxr \in 0..MaxRestartsArg,
        order \in IterOrders(BaseChildren(dirs)) :
       Call(objective, workspace, res, timed, maxr, order)
  \/ \E list \in BOOLEAN, res \in BOOLEAN, objArg \in objArgs,
        workspace \in workspaces, timed \in BOOLEAN,
        order \in IterOrders(BaseChildren(dirs)),
        maxArg \in {<<>>, <<MaxRestartsArg>>} :
       Main(list, res, objArg, workspace, timed, order, maxArg)
  \/ \E st \in statusWrites, ob \in objectiveWrites, co \in completeWrites,
        rm \in removals :
       WorkerWrites(st, ob, co, rm)
  \/ \E rc \in ExitCodes : WorkerExits(rc)
  \/ TimeoutExpired
  \/ KeyboardInterrupt
  \/ RunRaises
  \/ Exit

\* the restart controller at work on an explicit workspace, the worker
\* writing its status file and its completion report
Next ==
  Step({ObjHi}, {<<>>, ObjHi, <<"f">>, LongPath}, {<<"/", "x">>},
       Writes(StatusTexts), {Keep}, Writes(CompleteTexts), Removals)

Spec == Init /\ [][Next]_vars

\* the workspace resolver at work under the base directory (no --workspace),
\* the worker writing the objective marker
NextResolve ==
  \/ Step({ObjHi}, {<<>>, ObjHi, <<"f">>}, {<<>>},
          {Keep}, Writes(ObjectiveTexts), {Keep}, {{}})
  \/ Tick

SpecResolve == Init /\ [][NextResolve]_vars

\* subprocess.run returns or raises: the worker run under way ends
WorkerRunEnds ==
  \/ \E rc \in ExitCodes : WorkerExits(rc)
  \/ TimeoutExpired
  \/ KeyboardInterrupt
  \/ RunRaises

\* the restart controller, every worker run ending sooner or later
SpecLive == Spec /\ WF_vars(WorkerRunEnds)

\* ------------------------------------------- the pure functions on their own
\* a function about to be called on arg; out holds the last result, prev the
\* one before it
Pure(fn, arg, out) == [fn |-> fn, arg |-> arg, out |-> out, prev |-> <<>>, calls |-> 0]

Evaluated(out) == [pure EXCEPT !.prev = pure.out, !.out = out, !.calls = pure.calls + 1]

Machine ==
  <<baseExists, dirs, clock, pc, args, workspace_dir, resume, restart_count,
    max_restarts, prompt, ret, printed, worker, wrote, launches, lastExit,
    statusReads, invocations>>

\* the characters objectives are made of: a letter of each case, a digit, the
\* two safe punctuation marks, an unsafe one, a space
NameChars == {"A", "b", "1", "-", "_", "!", " "}

RECURSIVE Names(_)
Names(n) ==
  IF n = 0 THEN {<<>>}
  ELSE Names(n - 1) \cup {Append(s, c) : s \in Names(n - 1), c \in NameChars}

\* names that reach past the cut at SlugMax characters
Pad == [i \in 1..(SlugMax - 2) |-> "a"]

LongNames == {Pad \o s : s \in {t \in Names(MaxNameLen) : Len(t) >= 3}}

SanitizeInputs ==
  {Pure("sanitize_name", name, <<>>) : name \in Names(MaxNameLen) \cup LongNames}

\* sanitize_name(name)
EvalSanitizeName ==
  /\ pure.fn = "sanitize_name" /\ pure.calls = 0
  /\ pure' = Evaluated(SanitizeName(pure.arg))
  /\ UNCHANGED Machine

\* the workspaces ensure_memory_structure may find: absent, or present with
\* some directories under .memory and some files in them; a second
\* workspace stands beside it
ScaffoldPath == <<"/", "x">>

OtherPath == <<"/", "y">>

OtherDir ==
  [EmptyDir EXCEPT !.partitions = {"core"}, !.objective = File(ObjHi)]

ScaffoldDirs ==
  {[EmptyDir EXCEPT !.partitions = pa, !.status = st, !.objective = ob] :
     pa \in {{}, {"core"}, {"core", "notes"}, PartitionNames},
     st \in {NoFile, File(ResumeToken)}, ob \in {NoFile, File(ObjHi)}}

ScaffoldInputs ==
  {Pure("ensure_memory_structure", [fs |-> fs, ws |-> ScaffoldPath], fs) :
     fs \in {OtherPath :> OtherDir} \cup
            {(ScaffoldPath :> dir) @@ (OtherPath :> OtherDir) : dir \in ScaffoldDirs}}

\* ensure_memory_structure(workspace_dir), on the filesystem the call before
\* it left
EvalEnsureMemoryStructure ==
  /\ pure.fn = "ensure_memory_structure" /\ pure.calls < 2
  /\ pure' = Evaluated(EnsureMemoryStructure(pure.out, pure.arg.ws))
  /\ UNCHANGED Machine

\* the files load_objective may find in the two directories, and the strings
\* it is called with
LoadInputs ==
  {Pure("load_objective", [cwd |-> cwd, root |-> root, path |-> path], <<>>) :
     cwd \in {<< >>, CwdFiles},
     root \in {<< >>, RootFiles, <<"g">> :> <<"\t", "g", "o", " ">>},
     path \in {<<"f">>, <<"g">>, <<"h">>, ObjHi, <<" ", "f">>, LongPath}}

\* load_objective(objective_path)
EvalLoadObjective ==
  /\ pure.fn = "load_objective" /\ pure.calls = 0
  /\ pure' = Evaluated(LoadObjectiveIn(pure.arg.cwd, pure.arg.root, pure.arg.path))
  /\ UNCHANGED Machine

\* create_master_prompt is called for two objectives, the workspace and the
\* resume flag being the same
PromptInputs ==
  {Pure("create_master_prompt", [first |-> o1, second |-> o2, ws |-> ws, res |-> res],
        <<>>) :
     o1 \in {<<>>, ObjHi, ObjDots}, o2 \in {<<>>, ObjHi, ObjDots},
     ws \in {ScaffoldPath, Join(BasePath, SanitizeName(ObjHi))}, res \in BOOLEAN}

\* create_master_prompt(objective, workspace_dir, resume), for both objectives
EvalCreateMasterPrompt ==
  /\ pure.fn = "create_master_prompt" /\ pure.calls < 2
  /\ pure' = Evaluated(<<CreateMasterPrompt(pure.arg.first, pure.arg.ws, pure.arg.res),
                         CreateMasterPrompt(pure.arg.second, pure.arg.ws, pure.arg.res)>>)
  /\ UNCHANGED Machine

\* the objectives of a fresh launch: plain ones, ones made of path syntax,
\* ones whose slug is empty
FreshObjectives ==
  {ObjHi, ObjDots, <<>>, <<".">>, <<"/">>, <<"_">>, <<"-">>, <<"!", "!">>,
   <<"a", "/", "b">>, <<".", ".", "/", "a">>, <<"/", "e", "t", "c">>,
   <<"a", ".", "b">>, <<".", ".", "/", ".", ".">>}

\* the base directory as a fresh launch may find it: absent, empty, or
\* holding the directory named after the objective
FreshInputs ==
  {Pure("resolve_fresh", [objective |-> o, base |-> f.base, dirs |-> f.dirs, now |-> t],
        <<>>) :
     o \in FreshObjectives, t \in 0..MaxClock,
     f \in {[base |-> FALSE, dirs |-> << >>], [base |-> TRUE, dirs |-> << >>],
            [base |-> TRUE, dirs |-> Join(BasePath, <<"h", "i">>) :> EmptyDir],
            [base |-> TRUE, dirs |-> Join(BasePath, <<"a", "_", "b">>) :> EmptyDir]}}

\* the fresh branch of run_agent's workspace resolution
EvalResolveFresh ==
  /\ pure.fn = "resolve_fresh" /\ pure.calls = 0
  /\ pure' = Evaluated(ResolveFresh(pure.arg.base, pure.arg.dirs, pure.arg.objective,
                                    pure.arg.now))
  /\ UNCHANGED Machine

PureInputs ==
  SanitizeInputs \cup ScaffoldInputs \cup LoadInputs \cup PromptInputs \cup FreshInputs

InitPure == InitMachine /\ pure \in PureInputs

NextPure ==
  \/ EvalSanitizeName
  \/ EvalEnsureMemoryStructure
  \/ EvalLoadObjective
  \/ EvalCreateMasterPrompt
  \/ EvalResolveFresh

SpecPure == InitPure /\ [][NextPure]_vars

\* ------------------------------------------------------------------ claims
\* the run ended by the worker exiting with return code 0, its status file
\* holding the resume token (surrounding whitespace aside)
SentinelExit(e) ==
  /\ e.kind = "exit" /\ e.rc = 0
  /\ e.status.exists /\ Strip(e.status.text) = ResumeToken

\* a relaunch followed the last exit; the invocation ended with it
Relaunched == pc = "running" /\ launches > 1

Over == pc = "returned" /\ lastExit.kind # "none"

\* the budget still allowed a relaunch when run e ended
WithinBudget(e) == e.restarts + 1 < max_restarts

\* C1, as claimed: a relaunch follows the exit of a worker run if and only if
\* that run exited with return code 0 and left the resume token in status.txt
C1_RelaunchIffSentinelExit ==
  /\ Relaunched => SentinelExit(lastExit)
  /\ Over => ~SentinelExit(lastExit)

\* C1, amended: a relaunch follows the exit of a worker run if and only if
\* that run exited with return code 0, left the resume token in status.txt,
\* and the restart counter, incremented for that exit, is still below
\* max_restarts
C1_RelaunchIffSentinelExitWithinBudget ==
  /\ Relaunched => SentinelExit(lastExit) /\ WithinBudget(lastExit)
  /\ Over => ~(SentinelExit(lastExit) /\ WithinBudget(lastExit))

\* a relaunch after a run that left the token followed by a newline
C1_Witness ==
  /\ Relaunched
  /\ lastExit.status.text = ResumeToken \o <<"\n">>

\* C2, as claimed: when every run exits with return code 0 and leaves the
\* resume token, the invocation ends after max_restarts relaunches have
\* followed the initial launch
C2_MaxRestartsRelaunches ==
  (pc = "returned" /\ SentinelExit(lastExit)) => launches - 1 = max_restarts

\* C3: when the first run exits with return code 0 and status.txt is absent or
\* holds something other than the resume token, the invocation makes exactly
\* one launch, reports completion and returns without a relaunch
C3_CleanFirstExitOneLaunch ==
  (lastExit.kind = "exit" /\ lastExit.run = 1 /\ lastExit.rc = 0
     /\ ~SentinelExit(lastExit))
    => /\ launches = 1
       /\ pc = "returned"
       /\ Msg("completed", 0, <<>>) \in printed

\* the first run left other content in status.txt, the budget being the default
C3_Witness ==
  /\ lastExit.kind = "exit" /\ lastExit.run = 1 /\ lastExit.rc = 0
  /\ lastExit.status.exists /\ ~SentinelExit(lastExit)
  /\ max_restarts = DefaultMaxRestarts
  /\ pc = "returned"

\* C4, as claimed: no worker is launched on a workspace whose status.txt the
\* controller has already read and counted as a restart
C4_CountedSentinelClearedBeforeLaunch ==
  pc = "running" => ~dirs[workspace_dir].counted

\* C5: at every relaunch (every launch of an invocation after its first)
\* status.txt does not exist
C5_NoStatusAtRelaunch ==
  (pc = "running" /\ launches > 1 /\ ~wrote) => ~dirs[workspace_dir].status.exists

\* the worker has just been relaunched
C5_Witness == pc = "running" /\ launches > 1 /\ ~wrote /\ SentinelExit(lastExit)

\* C6: after a run that exited with a nonzero return code the invocation has
\* returned without another launch, the restart counter is what it was, and
\* the return code has been printed
C6_NonzeroExitIsTerminal ==
  (lastExit.kind = "exit" /\ lastExit.rc # 0)
    => /\ pc = "returned"
       /\ launches = lastExit.run
       /\ restart_count = lastExit.restarts
       /\ Msg("exited", lastExit.rc, <<>>) \in printed

\* a nonzero exit with the resume token in status.txt and budget left
C6_Witness ==
  /\ lastExit.kind = "exit" /\ lastExit.rc = 2
  /\ lastExit.status.exists /\ Strip(lastExit.status.text) = ResumeToken
  /\ WithinBudget(lastExit)
  /\ pc = "returned"

\* C7: after a timeout or an interrupt the invocation has returned 0 without
\* another launch, the worker is not running, status.txt is as the worker
\* left it, check_needs_resume has not been called for that run and the
\* restart counter is what it was
C7_StopIsTerminal ==
  (lastExit.kind \in {"timeout", "interrupt"})
    => /\ pc = "returned"
       /\ ret = <<0>>
       /\ worker = "none"
       /\ launches = lastExit.run
       /\ dirs[workspace_dir].status = lastExit.status
       /\ statusReads = lastExit.reads
       /\ restart_count = lastExit.restarts

\* a timeout of a relaunched run that had written the resume token
C7_Witness ==
  /\ lastExit.kind = "timeout" /\ lastExit.run > 1
  /\ lastExit.status.exists /\ Strip(lastExit.status.text) = ResumeToken
  /\ pc = "returned"

Printed(tags) == \E t \in tags : Msg(t, 0, <<>>) \in printed

\* C8: an invocation that ended in completion, timeout or interrupt returned
\* 0; one that ended in a failed workspace resolution, in the usage error or
\* in an unexpected error of the worker run returned 1
C8_ExitCodes ==
  pc = "returned"
    => /\ Printed({"completed", "timeout", "interrupt"}) => ret = <<0>>
       /\ Printed({"no_saved_state", "no_workspace_directory", "usage", "error"})
            => ret = <<1>>

\* an unexpected error of the worker run, returned as 1
C8_Witness == pc = "returned" /\ lastExit.kind = "error" /\ ret = <<1>>

\* a resume with no --workspace finds nothing to resume
NothingToResume ==
  ~baseExists \/ \A p \in BaseChildren(dirs) : ~dirs[p].objective.exists

\* C9: a resume with no explicit workspace that finds no base directory, or
\* no entry of it holding .memory/core/objective.md, returns 1, launches no
\* worker and leaves the base directory and every workspace as they were
C9_FailedResumeCreatesNothing ==
  [][(pc = "idle" /\ pc' # "idle" /\ ~args'.list /\ args'.resume
        /\ args'.workspace = <<>> /\ NothingToResume)
       => /\ pc' = "returned"
          /\ ret' = <<1>>
          /\ launches' = 0
          /\ worker' = "none"
          /\ baseExists' = baseExists
          /\ dirs' = dirs]_vars

\* the base directory holds a workspace without the marker, and the resume failed
C9_Witness ==
  /\ pc = "returned" /\ ~args.list /\ args.resume /\ args.workspace = <<>>
  /\ baseExists /\ BaseChildren(dirs) # {}
  /\ Msg("no_saved_state", 0, <<>>) \in printed
  /\ ret = <<1>>

\* the worker has just been launched on the workspace a resume with no
\* --workspace resolved to
ResumedByScan ==
  /\ pc = "running" /\ launches = 1 /\ ~wrote
  /\ args.resume /\ args.workspace = <<>>

\* C10, as claimed: the workspace a resume with no explicit workspace selects
\* is an immediate subdirectory of the base directory whose objective marker
\* exists and is not empty
C10_ResumeSelectsPopulatedMarker ==
  ResumedByScan
    => /\ workspace_dir \in BaseChildren(dirs)
       /\ dirs[workspace_dir].objective.exists
       /\ dirs[workspace_dir].objective.text # <<>>

\* C10, amended: the workspace a resume with no explicit workspace selects is
\* an immediate subdirectory of the base directory whose objective marker
\* exists, empty or not
C10_ResumeSelectsExistingMarker ==
  ResumedByScan
    => /\ workspace_dir \in BaseChildren(dirs)
       /\ dirs[workspace_dir].objective.exists

\* a resume that passed over a subdirectory without the marker
C10_Witness ==
  /\ ResumedByScan
  /\ \E p \in BaseChildren(dirs) : ~dirs[p].objective.exists


\* a fresh launch: no --workspace, no --resume, and a worker is started
FreshLaunchStep ==
  /\ pc = "idle" /\ pc' = "running"
  /\ args'.workspace = <<>> /\ ~args'.resume

\* C11: every fresh launch resolves to a workspace directory that did not
\* exist before that launch, so that no existing workspace is reused, at any
\* clock readings
C11_FreshWorkspaceIsNew ==
  [][FreshLaunchStep => workspace_dir' \notin DOMAIN dirs]_vars


\* what one character of the objective becomes in the directory name
SlugChar(c) ==
  IF c \in Range(LowerLetters) \cup Range(Digits) \cup {"-", "_"} THEN c
  ELSE IF c \in Range(UpperLetters) THEN LowerChar(c)
  ELSE "_"

\* r is s without its leading and trailing underscores
IsTrimmedOf(r, s) ==
  /\ r # <<>> => r[1] # "_" /\ r[Len(r)] # "_"
  /\ \E i \in 1..(Len(s) + 1) :
       /\ i + Len(r) - 1 <= Len(s)
       /\ r = SubSeq(s, i, i + Len(r) - 1)
       /\ \A k \in 1..Len(s) : (k < i \/ k > i + Len(r) - 1) => s[k] = "_"

\* C12: sanitize_name returns at most 50 characters, all in [a-z0-9_-],
\* neither starting nor ending with "_": the first 50 characters of the
\* objective, each unsafe character replaced by "_", lowercased, the leading
\* and trailing "_" stripped
C12_SanitizeNameSafe ==
  (pure.fn = "sanitize_name" /\ pure.calls = 1) =>
    LET r == pure.out
        cut == [i \in 1..Min(Len(pure.arg), 50) |-> SlugChar(pure.arg[i])]
    IN  /\ Len(r) <= 50
        /\ \A i \in DOMAIN r : r[i] \in Range(LowerLetters) \cup Range(Digits) \cup {"_", "-"}
        /\ IsTrimmedOf(r, cut)

\* a name of more than 50 characters whose 50th is unsafe has been sanitized
C12_Witness ==
  /\ pure.fn = "sanitize_name" /\ pure.calls = 1
  /\ Len(pure.arg) > 50 /\ pure.arg[50] = "!" /\ pure.arg[1] = "a"
  /\ Len(pure.out) = 49


\* C13: the five partition directories exist under the workspace at the
\* moment of every worker launch, relaunches after a checkpoint included
C13_PartitionsAtEveryLaunch ==
  [][launches' = launches + 1 =>
       PartitionNames \subseteq dirs'[workspace_dir'].partitions]_vars


ModeOf(flag) == IF flag THEN "resume" ELSE "fresh"

\* C14: the first launch of an invocation uses the mode of the caller's
\* resume flag, every relaunch is in resume mode, and the mode never goes
\* back from resume to fresh within an invocation
C14_ModeOfLaunches ==
  [][/\ (pc' = "running" /\ launches' = 1) => prompt'.mode = ModeOf(args'.resume)
     /\ (pc' = "running" /\ launches' > 1) => (prompt'.mode = "resume" /\ resume')
     /\ (prompt.mode = "resume" /\ pc' # "idle") => prompt'.mode = "resume"]_vars

\* an invocation started fresh runs its relaunched worker in resume mode
C14_Witness ==
  /\ pc = "running" /\ launches > 1
  /\ ~args.resume /\ prompt.mode = "resume"


\* the directory at ws in d, or an empty one when there is none
DirAt(d, ws) == IF ws \in DOMAIN d THEN d[ws] ELSE EmptyDir

\* C15: ensure_memory_structure creates exactly the five partitions under
\* the workspace and nothing else, and a second call leaves the filesystem
\* as the first left it, files inside the partitions included
C15_ScaffoldExactAndIdempotent ==
  (pure.fn = "ensure_memory_structure" /\ pure.calls >= 1) =>
    LET ws == pure.arg.ws
        before == pure.arg.fs
        after == pure.out
    IN  /\ DOMAIN after = DOMAIN before \cup {ws}
        /\ \A p \in DOMAIN before \ {ws} : after[p] = before[p]
        /\ after[ws].partitions = DirAt(before, ws).partitions \cup PartitionNames
        /\ Cardinality(after[ws].partitions \cap PartitionNames) = 5
        /\ after[ws].status = DirAt(before, ws).status
        /\ after[ws].objective = DirAt(before, ws).objective
        /\ after[ws].complete = DirAt(before, ws).complete
        /\ pure.calls = 2 => after = pure.prev

\* a second call on a workspace that held one partition and two files
C15_Witness ==
  /\ pure.fn = "ensure_memory_structure" /\ pure.calls = 2
  /\ pure.arg.ws \in DOMAIN pure.arg.fs
  /\ pure.arg.fs[pure.arg.ws].partitions = {"core"}
  /\ pure.out[pure.arg.ws].status.exists
  /\ pure.out[pure.arg.ws].objective.exists


\* r is s without its leading and trailing whitespace
IsStrippedOf(r, s) ==
  /\ r # <<>> => r[1] \notin Whitespace /\ r[Len(r)] \notin Whitespace
  /\ \E i \in 1..(Len(s) + 1) :
       /\ i + Len(r) - 1 <= Len(s)
       /\ r = SubSeq(s, i, i + Len(r) - 1)
       /\ \A k \in 1..Len(s) : (k < i \/ k > i + Len(r) - 1) => s[k] \in Whitespace

\* C16: load_objective returns the trimmed contents of the file the string
\* names relative to the current directory, else of the file it names under
\* the installation root, else the string unchanged, and never raises for a
\* string that names no file
C16_LoadObjectivePriority ==
  (pure.fn = "load_objective" /\ pure.calls = 1) =>
    LET a == pure.arg
    IN  /\ ~pure.out.raised
        /\ IF a.path \in DOMAIN a.cwd THEN IsStrippedOf(pure.out.text, a.cwd[a.path])
           ELSE IF a.path \in DOMAIN a.root THEN IsStrippedOf(pure.out.text, a.root[a.path])
           ELSE pure.out.text = a.path


SameContent(a, b) ==
  /\ a.status = b.status /\ a.objective = b.objective /\ a.complete = b.complete
  /\ a.partitions = b.partitions

\* the step is the worker's, not the controller's
WorkerStep == ~wrote /\ wrote'

\* the step ends an invocation after a worker run or a failed resolution
OutcomeStep ==
  /\ pc' = "returned"
  /\ pc = "running" \/ (pc = "idle" /\ ~args'.list /\ ret' = <<ResolutionError>>)

C19_MaxRestartsFromCommandLine ==
  (pc # "idle" /\ args.maxArg # <<>>) =>
    /\ ret # <<ArgparseError>>
    /\ max_restarts = args.maxArg[1]


ReportPrinted == \E m \in printed : m.tag = "report"

\* the invocation has ended in completion: its last worker run exited with
\* return code 0 and left no resume sentinel
Completed ==
  /\ pc = "returned"
  /\ lastExit.kind = "exit" /\ lastExit.rc = 0
  /\ ~SentinelExit(lastExit)

\* C20: the completion report is printed exactly when the invocation ends in
\* completion and complete.md exists, and then with the content of the file;
\* a run that exits 0 leaving the sentinel is not a completion, whether it
\* left complete.md or not
C20_ReportIffCompleted ==
  pc # "idle" =>
    /\ ReportPrinted <=> (Completed /\ dirs[workspace_dir].complete.exists)
    /\ ReportPrinted =>
         {m \in printed : m.tag = "report"}
           = {Msg("report", 0, dirs[workspace_dir].complete.text)}
    /\ (lastExit.kind = "exit" /\ SentinelExit(lastExit)) => ~Printed({"completed"})

\* the report printed by an invocation that went through a checkpoint restart
\* while complete.md was already there
C20_Witness ==
  /\ pc = "returned" /\ ReportPrinted
  /\ launches > 1 /\ Printed({"checkpoint"})


BudgetReported == \E m \in printed : m.tag = "max_restarts"

\* the last worker run exited 0 with the sentinel and the restart counter,
\* incremented for it, reached max_restarts
SentinelAtLimit ==
  /\ pc = "returned"
  /\ SentinelExit(lastExit) /\ ~WithinBudget(lastExit)

\* C21: budget exhaustion is reported exactly when the invocation ended
\* because the restart counter reached max_restarts after an exit 0 with the
\* resume sentinel, never after completion, failure, timeout or interrupt,
\* and no launch follows the report
C21_BudgetReportedIffSentinelAtLimit ==
  pc # "idle" =>
    /\ BudgetReported <=> SentinelAtLimit
    /\ BudgetReported => (pc = "returned" /\ worker = "none")


\* C22: when every worker run ends, an invocation that has launched a worker
\* returns, whatever max_restarts, the exits of the worker and its writes
\* of the sentinel
C22_RunAgentReturns == (pc = "running") ~> (pc = "returned")

\* an invocation that went through every restart its budget allowed and
\* returned
C22_Witness ==
  /\ pc = "returned" /\ launches > 1 /\ launches = max_restarts
  /\ SentinelExit(lastExit)


RunAgentReturned ==
  /\ pc = "returned" /\ ~args.list
  /\ ~Printed({"usage", "unrecognized_arguments", "traceback"})

ResolutionFailed == Printed({"no_saved_state", "no_workspace_directory"})

\* C24: run_agent returns 0 after a worker run that exited with a nonzero
\* return code and after budget exhaustion, as it does after completion; it
\* returns 1 only after a failed resolution or an unexpected exception of the
\* worker run
C24_ReturnValueOfRunAgent ==
  RunAgentReturned =>
    /\ (lastExit.kind = "exit" /\ lastExit.rc # 0) => ret = <<0>>
    /\ BudgetReported => ret = <<0>>
    /\ Printed({"completed"}) => ret = <<0>>
    /\ ret \in {<<0>>, <<1>>}
    /\ ret = <<1>> => (ResolutionFailed \/ lastExit.kind = "error")

\* budget exhaustion after a restart, returned as 0
C24_Witness ==
  /\ RunAgentReturned /\ BudgetReported /\ launches > 1
  /\ SentinelExit(lastExit) /\ ret = <<0>>


\* p is a directory right under the base directory: one more component,
\* which is a name and neither "." nor ".."
ImmediateChildOfBase(p) ==
  /\ Len(p) > Len(BasePath) + 1
  /\ SubSeq(p, 1, Len(BasePath) + 1) = BasePath \o <<"/">>
  /\ \A k \in (Len(BasePath) + 2)..Len(p) : p[k] # "/"
  /\ SubSeq(p, Len(BasePath) + 2, Len(p)) \notin {<<".">>, <<".", ".">>}

\* C25: the workspace of a fresh launch is an immediate child directory of
\* the base directory, whatever the objective: never the base directory
\* itself, never a path outside it or deeper in it
C25_FreshWorkspaceIsChildOfBase ==
  (pure.fn = "resolve_fresh" /\ pure.calls = 1) =>
    /\ pure.out.ok /\ pure.out.base
    /\ ImmediateChildOfBase(pure.out.ws)
    /\ pure.out.ws \in DOMAIN pure.out.dirs
    /\ \A p \in DOMAIN pure.out.dirs : p = pure.out.ws \/ p \in DOMAIN pure.arg.dirs

\* a fresh launch for the objective "../.." has got its workspace
C25_Witness ==
  /\ pure.fn = "resolve_fresh" /\ pure.calls = 1
  /\ pure.arg.objective = <<".", ".", "/", ".", ".">>
  /\ pure.out.ok

=============================================================================
